---- MODULE Spec2Model ----
(***************************************************************************)
(* A model of src/channel.ts: the session-scoped file-watch registry of   *)
(* FileProviderChannel (Watcher, listen, watch, unwatch, dispose) and the *)
(* extension scan/merge of ExtensionEnvironmentChannel.scanExtensions.    *)
(***************************************************************************)
EXTENDS Integers, Sequences, FiniteSets, TLC

\* ------------------------------------------------------------------ bounds
MaxEmitters == 2    \* listen("filechange") calls, one Emitter each
MaxListeners == 2   \* listeners attached to one Emitter at a time
MaxWatchers == 2    \* Watcher objects ever constructed
MaxHandles == 2     \* subscription handles ever opened
MaxReq == 2         \* request ids 1..MaxReq

Sessions == {"A", "B"}
Emitters == 1..MaxEmitters
WatcherIds == 1..MaxWatchers
Handles == 1..MaxHandles
Reqs == 1..MaxReq
None == 0

\* the roots handed to scanMultiple, in the order the merge visits them
BuiltinRoots == <<"builtinExtensionsPath", "extraBuiltinExtensionPaths">>
InstalledRoots == <<"extensionsPath">>
AllRoots == BuiltinRoots \o InstalledRoots
NumRoots == Len(AllRoots)
Pending == [state |-> "pending", value |-> <<>>]

VARIABLES
  watchers,         \* FileProviderChannel.watchers: session -> Watcher id, None
  watches,          \* Watcher.watches of each Watcher: req -> handle, None
  wDisposed,        \* Watcher w: dispose() has run (super.dispose() reached)
  wSession,         \* Watcher w: the `session` its creating closure registered it under
  wEmitter,         \* Watcher w: the emitter its events are wired to
  nWatchers,        \* Watcher objects constructed so far
  released,         \* handle h: how many times its dispose() has been called
  nHandles,         \* handles opened so far
  emitterSession,   \* emitter e: args[0] of the listen() call that made it
  listeners,        \* emitter e: number of listeners attached now
  nEmitters,        \* emitters made so far
  channelDisposed,  \* FileProviderChannel.dispose() has been called
  last,             \* the last operation and its outcome (observation only)
  scanPc,           \* scanExtensions: "idle", "scanning", "resolved", "rejected"
  tasks,            \* one scan task per root, in merge order
  completed,        \* the roots whose scan task has settled, in settling order
  uniqueExtensions, \* the merge's Map, as its entries in insertion order
  warnings,         \* the log.warn calls of the merge, in order
  merged,           \* the descriptors the merge has visited, in order
  returned,         \* the array scanExtensions resolved with
  primitive         \* the last call handed to the DiskFileSystemProvider

chanVars == <<watchers, watches, wDisposed, wSession, wEmitter, nWatchers, released,
              nHandles, emitterSession, listeners, nEmitters, channelDisposed, last>>
scanVars == <<scanPc, tasks, completed, uniqueExtensions, warnings, merged, returned>>
fileVars == <<primitive>>
vars == <<chanVars, scanVars, fileVars>>

Op(op, s, r, e, w, h, ok, targets, held) ==
  [op |-> op, session |-> s, req |-> r, emitter |-> e, watcher |-> w,
   handle |-> h, ok |-> ok, targets |-> targets, held |-> held]

\* no call has reached the provider yet
NoCall == [method |-> "-"]

NoOp == [op |-> "init", session |-> "-", req |-> None, emitter |-> None,
         watcher |-> None, handle |-> None, ok |-> TRUE,
         targets |-> {}, held |-> {}]

Init ==
  /\ watchers = [s \in Sessions |-> None]
  /\ watches = [w \in WatcherIds |-> [r \in Reqs |-> None]]
  /\ wDisposed = [w \in WatcherIds |-> FALSE]
  /\ wSession = [w \in WatcherIds |-> "-"]
  /\ wEmitter = [w \in WatcherIds |-> None]
  /\ nWatchers = 0
  /\ released = [h \in Handles |-> 0]
  /\ nHandles = 0
  /\ emitterSession = [e \in Emitters |-> "-"]
  /\ listeners = [e \in Emitters |-> 0]
  /\ nEmitters = 0
  /\ channelDisposed = FALSE
  /\ last = NoOp
  /\ scanPc = "idle"
  /\ tasks = [i \in 1..NumRoots |-> Pending]
  /\ completed = <<>>
  /\ uniqueExtensions = <<>>
  /\ warnings = <<>>
  /\ merged = <<>>
  /\ returned = <<>>
  /\ primitive = NoCall

\* ------------------------------------------------------------- helpers
\* the handles stored in the maps of the Watchers in ws
HeldBy(ws) == {watches[w][r] : w \in ws, r \in Reqs} \ {None}

\* the Watchers registered in the channel's registry
Registered == {watchers[s] : s \in Sessions} \ {None}

\* some listener is attached to some emitter opened for session s
HasListener(s) ==
  \E e \in 1..nEmitters : emitterSession[e] = s /\ listeners[e] > 0

\* ------------------------------------------------------------- Watcher
\* Watcher.dispose() on every Watcher of ws: each map entry's handle is
\* disposed, the map cleared, then super.dispose(), which ends the
\* Watcher's event emitters and with them the handlers wired to them.
Watcher_dispose_keepsMap(ws) ==
  /\ released' = [h \in Handles |->
        released[h] + Cardinality({<<w, r>> \in ws \X Reqs : watches[w][r] = h})]
  /\ watches' = watches
  /\ wDisposed' = [w \in WatcherIds |-> wDisposed[w] \/ w \in ws]
  /\ wSession' = [w \in WatcherIds |-> IF w \in ws THEN "-" ELSE wSession[w]]
  /\ wEmitter' = [w \in WatcherIds |-> IF w \in ws THEN None ELSE wEmitter[w]]

Watcher_dispose(ws) ==
  /\ released' = [h \in Handles |->
        released[h] + Cardinality({<<w, r>> \in ws \X Reqs : watches[w][r] = h})]
  /\ watches' = [w \in WatcherIds |->
        IF w \in ws THEN [r \in Reqs |-> None] ELSE watches[w]]
  /\ wDisposed' = [w \in WatcherIds |-> wDisposed[w] \/ w \in ws]
  /\ wSession' = [w \in WatcherIds |-> IF w \in ws THEN "-" ELSE wSession[w]]
  /\ wEmitter' = [w \in WatcherIds |-> IF w \in ws THEN None ELSE wEmitter[w]]

\* Watcher._watch(req, resource, opts): open a subscription, store it under req
Watcher_watch(w, r) ==
  /\ nHandles' = nHandles + 1
  /\ watches' = [watches EXCEPT ![w][r] = nHandles + 1]

\* Watcher.unwatch(req) on a present key: dispose the handle, delete the key
Watcher_unwatch_keepsKey(w, r) ==
  /\ released' = [released EXCEPT ![watches[w][r]] = @ + 1]
  /\ watches' = watches

Watcher_unwatch(w, r) ==
  /\ released' = [released EXCEPT ![watches[w][r]] = @ + 1]
  /\ watches' = [watches EXCEPT ![w][r] = None]

\* ------------------------------------------------- FileProviderChannel
\* listen(context, "filechange", [session]): a new Emitter for the session
listen(s) ==
  /\ nEmitters < MaxEmitters
  /\ nEmitters' = nEmitters + 1
  /\ emitterSession' = [emitterSession EXCEPT ![nEmitters + 1] = s]
  /\ last' = Op("listen", s, None, nEmitters + 1, None, None, TRUE, {}, {})
  /\ UNCHANGED <<watchers, watches, wDisposed, wSession, wEmitter, nWatchers,
                 released, nHandles, listeners, channelDisposed>>
  /\ UNCHANGED <<scanVars, fileVars>>

\* onFirstListenerAdd of emitter e: construct a Watcher, register it under
\* the emitter's session, wire its change and error events to the emitter
onFirstListenerAdd(e) ==
  /\ nWatchers' = nWatchers + 1
  /\ watchers' = [watchers EXCEPT ![emitterSession[e]] = nWatchers + 1]
  /\ wSession' = [wSession EXCEPT ![nWatchers + 1] = emitterSession[e]]
  /\ wEmitter' = [wEmitter EXCEPT ![nWatchers + 1] = e]
  /\ last' = Op("attach", emitterSession[e], None, e, nWatchers + 1, None,
                TRUE, {}, {})

\* a listener subscribes to the event of emitter e
Attach(e) ==
  /\ e \in 1..nEmitters
  /\ listeners[e] < MaxListeners
  /\ listeners' = [listeners EXCEPT ![e] = @ + 1]
  /\ IF listeners[e] = 0
       THEN /\ nWatchers < MaxWatchers
            /\ onFirstListenerAdd(e)
       ELSE /\ last' = Op("attach", emitterSession[e], None, e, None, None,
                          TRUE, {}, {})
            /\ UNCHANGED <<watchers, wSession, wEmitter, nWatchers>>
  /\ UNCHANGED <<watches, wDisposed, released, nHandles, emitterSession,
                 nEmitters, channelDisposed>>
  /\ UNCHANGED <<scanVars, fileVars>>

\* onLastListenerRemove of emitter e: this.watchers.get(session)!.dispose(),
\* then this.watchers.delete(session); a missing entry throws a TypeError
onLastListenerRemove_all(e) ==
  /\ Watcher_dispose(Registered)
  /\ watchers' = [s \in Sessions |-> None]
  /\ last' = Op("detach", emitterSession[e], None, e, watchers[emitterSession[e]],
                None, TRUE, {}, HeldBy(Registered))

onLastListenerRemove(e) ==
  LET s == emitterSession[e]
      w == watchers[s]
  IN IF w = None
       THEN /\ last' = Op("detach", s, None, e, None, None, FALSE, {}, {})
            /\ UNCHANGED <<watchers, watches, wDisposed, released, wSession, wEmitter>>
       ELSE /\ Watcher_dispose({w})
            /\ watchers' = [watchers EXCEPT ![s] = None]
            /\ last' = Op("detach", s, None, e, w, None, TRUE, {}, HeldBy({w}))

\* a listener of emitter e is disposed
Detach(e) ==
  /\ e \in 1..nEmitters
  /\ listeners[e] > 0
  /\ listeners' = [listeners EXCEPT ![e] = @ - 1]
  /\ IF listeners[e] = 1
       THEN onLastListenerRemove(e)
       ELSE /\ last' = Op("detach", emitterSession[e], None, e, None, None,
                          TRUE, {}, {})
            /\ UNCHANGED <<watchers, watches, wDisposed, released, wSession, wEmitter>>
  /\ UNCHANGED <<nWatchers, nHandles, emitterSession,
                 nEmitters, channelDisposed>>
  /\ UNCHANGED <<scanVars, fileVars>>

\* call("watch", [session, req, resource, opts])
watch_lazy(s, r) ==
  /\ nHandles < MaxHandles
  /\ IF watchers[s] = None
       THEN /\ nWatchers < MaxWatchers
            /\ nWatchers' = nWatchers + 1
            /\ watchers' = [watchers EXCEPT ![s] = nWatchers + 1]
            /\ wSession' = [wSession EXCEPT ![nWatchers + 1] = s]
            /\ Watcher_watch(nWatchers + 1, r)
       ELSE /\ Watcher_watch(watchers[s], r)
            /\ UNCHANGED <<watchers, nWatchers, wSession>>
  /\ last' = Op("watch", s, r, None, None, nHandles + 1, TRUE, {}, {})
  /\ UNCHANGED <<wDisposed, wEmitter, released, emitterSession, listeners,
                 nEmitters, channelDisposed>>
  /\ UNCHANGED <<scanVars, fileVars>>

watch(s, r) ==
  /\ IF watchers[s] = None
       THEN /\ last' = Op("watch", s, r, None, None, None, FALSE, {}, {})
            /\ UNCHANGED <<watches, nHandles>>
       ELSE /\ nHandles < MaxHandles
            /\ Watcher_watch(watchers[s], r)
            /\ last' = Op("watch", s, r, None, watchers[s], nHandles + 1, TRUE,
                          {}, {})
  /\ UNCHANGED <<watchers, wDisposed, wSession, wEmitter, nWatchers, released,
                 emitterSession, listeners, nEmitters, channelDisposed>>
  /\ UNCHANGED <<scanVars, fileVars>>

\* call("unwatch", [session, req])
unwatch_tolerant(s, r) ==
  /\ IF watchers[s] = None \/ watches[watchers[s]][r] = None
       THEN /\ last' = Op("unwatch", s, r, None, watchers[s], None, TRUE, {}, {})
            /\ UNCHANGED <<watches, released>>
       ELSE /\ Watcher_unwatch(watchers[s], r)
            /\ last' = Op("unwatch", s, r, None, watchers[s],
                          watches[watchers[s]][r], TRUE, {}, {})
  /\ UNCHANGED <<watchers, wDisposed, wSession, wEmitter, nWatchers, nHandles,
                 emitterSession, listeners, nEmitters, channelDisposed>>
  /\ UNCHANGED <<scanVars, fileVars>>

unwatch(s, r) ==
  /\ IF watchers[s] = None
       THEN /\ last' = Op("unwatch", s, r, None, None, None, FALSE, {}, {})
            /\ UNCHANGED <<watches, released>>
       ELSE IF watches[watchers[s]][r] = None
         THEN /\ last' = Op("unwatch", s, r, None, watchers[s], None, FALSE,
                            {}, {})
              /\ UNCHANGED <<watches, released>>
         ELSE /\ Watcher_unwatch(watchers[s], r)
              /\ last' = Op("unwatch", s, r, None, watchers[s],
                            watches[watchers[s]][r], TRUE, {}, {})
  /\ UNCHANGED <<watchers, wDisposed, wSession, wEmitter, nWatchers, nHandles,
                 emitterSession, listeners, nEmitters, channelDisposed>>
  /\ UNCHANGED <<scanVars, fileVars>>

\* FileProviderChannel.dispose(): dispose every registered Watcher, clear
dispose_clearOnly ==
  /\ watchers' = [s \in Sessions |-> None]
  /\ channelDisposed' = TRUE
  /\ last' = Op("dispose", "-", None, None, None, None, TRUE, {},
                HeldBy(Registered))
  /\ UNCHANGED <<watches, wDisposed, released>>
  /\ UNCHANGED <<wSession, wEmitter, nWatchers, nHandles, emitterSession,
                 listeners, nEmitters>>
  /\ UNCHANGED <<scanVars, fileVars>>

dispose ==
  /\ Watcher_dispose(Registered)
  /\ watchers' = [s \in Sessions |-> None]
  /\ channelDisposed' = TRUE
  /\ last' = Op("dispose", "-", None, None, None, None, TRUE, {},
                HeldBy(Registered))
  /\ UNCHANGED <<nWatchers, nHandles, emitterSession,
                 listeners, nEmitters>>
  /\ UNCHANGED <<scanVars, fileVars>>

\* emitter.fire(...) from the handlers wired to Watcher w: the listeners of
\* the emitter whose onFirstListenerAdd constructed w
fireTargets_broadcast(w) == {e \in 1..nEmitters : listeners[e] > 0}

fireTargets(w) == IF listeners[wEmitter[w]] > 0 THEN {wEmitter[w]} ELSE {}

\* Watcher w raises a change-event batch (it has an open subscription)
FireChange(w) ==
  /\ w \in 1..nWatchers
  /\ ~wDisposed[w]
  /\ \E h \in HeldBy({w}) : released[h] = 0
  /\ last' = Op("change", wSession[w], None, wEmitter[w], w, None, TRUE,
                fireTargets(w), {})
  /\ UNCHANGED <<watchers, watches, wDisposed, wSession, wEmitter, nWatchers,
                 released, nHandles, emitterSession, listeners, nEmitters,
                 channelDisposed>>
  /\ UNCHANGED <<scanVars, fileVars>>

\* Watcher w raises an error event
FireError(w) ==
  /\ w \in 1..nWatchers
  /\ ~wDisposed[w]
  /\ last' = Op("error", wSession[w], None, wEmitter[w], w, None, TRUE,
                fireTargets(w), {})
  /\ UNCHANGED <<watchers, watches, wDisposed, wSession, wEmitter, nWatchers,
                 released, nHandles, emitterSession, listeners, nEmitters,
                 channelDisposed>>
  /\ UNCHANGED <<scanVars, fileVars>>

\* names that are no case of the switch in call / in listen
InvalidCommands == {"chmod"}
InvalidEvents == {"fileerror"}

\* an unknown command whose switch case forgot its break: the registry is
\* emptied before the throw
invalidCall_clears(command) ==
  /\ watchers' = [s \in Sessions |-> None]
  /\ last' = Op("Invalid call", "-", None, None, None, None, FALSE, {}, {})
  /\ UNCHANGED <<watches, wDisposed, wSession, wEmitter, nWatchers, released,
                 nHandles, emitterSession, listeners, nEmitters, channelDisposed>>
  /\ UNCHANGED <<scanVars, fileVars>>

\* call(_, command, args) with a command that is no case of the switch:
\* throw new Error(`Invalid call "${command}"`)
invalidCall(command) ==
  /\ last' = Op("Invalid call", "-", None, None, None, None, FALSE, {}, {})
  /\ UNCHANGED <<watchers, watches, wDisposed, wSession, wEmitter, nWatchers,
                 released, nHandles, emitterSession, listeners, nEmitters,
                 channelDisposed>>
  /\ UNCHANGED <<scanVars, fileVars>>

\* listen(_, event, args) with an event other than "filechange":
\* throw new Error(`Invalid listen "${event}"`)
invalidListen(event) ==
  /\ last' = Op("Invalid listen", "-", None, None, None, None, FALSE, {}, {})
  /\ UNCHANGED <<watchers, watches, wDisposed, wSession, wEmitter, nWatchers,
                 released, nHandles, emitterSession, listeners, nEmitters,
                 channelDisposed>>
  /\ UNCHANGED <<scanVars, fileVars>>

Next ==
  \/ \E s \in Sessions : listen(s)
  \/ \E e \in Emitters : Attach(e)
  \/ \E e \in Emitters : Detach(e)
  \/ \E s \in Sessions, r \in Reqs : watch(s, r)
  \/ \E s \in Sessions, r \in Reqs : unwatch(s, r)
  \/ dispose
  \/ \E w \in WatcherIds : FireChange(w)
  \/ \E w \in WatcherIds : FireError(w)
  \/ \E command \in InvalidCommands : invalidCall(command)
  \/ \E event \in InvalidEvents : invalidListen(event)

Spec == Init /\ [][Next]_vars

\* ------------------------------------------- a Watcher used on its own
\* new Watcher(logService)
WatcherNew ==
  /\ nWatchers < MaxWatchers
  /\ nWatchers' = nWatchers + 1
  /\ last' = Op("new Watcher", "-", None, None, nWatchers + 1, None, TRUE, {}, {})
  /\ UNCHANGED <<watchers, watches, wDisposed, wSession, wEmitter, released,
                 nHandles, emitterSession, listeners, nEmitters, channelDisposed>>
  /\ UNCHANGED <<scanVars, fileVars>>

\* w._watch(r, resource, opts)
WatcherWatch(w, r) ==
  /\ w \in 1..nWatchers
  /\ nHandles < MaxHandles
  /\ Watcher_watch(w, r)
  /\ last' = Op("Watcher._watch", "-", r, None, w, nHandles + 1, TRUE, {}, {})
  /\ UNCHANGED <<watchers, wDisposed, wSession, wEmitter, nWatchers, released,
                 emitterSession, listeners, nEmitters, channelDisposed>>
  /\ UNCHANGED <<scanVars, fileVars>>

\* w.dispose()
WatcherDispose(w) ==
  /\ w \in 1..nWatchers
  /\ Watcher_dispose({w})
  /\ last' = Op("Watcher.dispose", "-", None, None, w, None, TRUE, {},
                HeldBy({w}))
  /\ UNCHANGED <<watchers, nWatchers, nHandles, emitterSession, listeners,
                 nEmitters, channelDisposed>>
  /\ UNCHANGED <<scanVars, fileVars>>

WatcherNext ==
  \/ WatcherNew
  \/ \E w \in WatcherIds, r \in Reqs : WatcherWatch(w, r)
  \/ \E w \in WatcherIds : WatcherDispose(w)

WatcherSpec == Init /\ [][WatcherNext]_vars

\* --------------------------------- FileProviderChannel: the file commands
MaxPath == 2

\* A path is a sequence of pieces; the path string is their concatenation,
\* so <<"/static", "-x">> is "/static-x" and <<"/static", "/foo">> is
\* "/static/foo".
Pieces == {"/static", "/vscode-resource", "/foo", "-x"}
Rooted == {"/static", "/vscode-resource", "/foo"}
Paths ==
  {p \in UNION {[1..n -> Pieces] : n \in 1..MaxPath} : p[1] \in Rooted}
Schemes == {"vscode-remote"}
Queries ==
  {"", "{", "null", "{}", "{\"requestResourcePath\":\"\"}",
   "{\"requestResourcePath\":\"/foo\"}"}
UriComponents == [scheme : Schemes, path : Paths, query : Queries]
NoResource == [scheme |-> "-", path |-> <<>>, query |-> ""]

\* this.environmentService.appRoot
appRoot == <<"/app">>

\* URI.file(path)
URI_file(path) == [scheme |-> "file", path |-> path, query |-> ""]

\* URI.from(components); a missing scheme defaults to "file"
URI_from(c) ==
  [scheme |-> IF c.scheme = "" THEN "file" ELSE c.scheme,
   path |-> c.path, query |-> c.query]

\* JSON.parse(resource.query): throws a SyntaxError, or gives null, or gives
\* an object whose requestResourcePath is a path (<<>>: undefined or "")
JSON_parse(q) ==
  CASE q = "null" ->
         [threw |-> FALSE, isNull |-> TRUE, requestResourcePath |-> <<>>]
    [] q = "{}" ->
         [threw |-> FALSE, isNull |-> FALSE, requestResourcePath |-> <<>>]
    [] q = "{\"requestResourcePath\":\"\"}" ->
         [threw |-> FALSE, isNull |-> FALSE, requestResourcePath |-> <<>>]
    [] q = "{\"requestResourcePath\":\"/foo\"}" ->
         [threw |-> FALSE, isNull |-> FALSE, requestResourcePath |-> <<"/foo">>]
    [] OTHER ->
         [threw |-> TRUE, isNull |-> FALSE, requestResourcePath |-> <<>>]

\* the body of the try block: "threw" (SyntaxError from JSON.parse, or
\* TypeError from reading a property of null), "file" (returned
\* URI.file(query.requestResourcePath)) or "none" (fell out of the block)
tryBlock(q) ==
  LET query == JSON_parse(q)
  IN  IF query.threw \/ query.isNull
        THEN [kind |-> "threw", path |-> <<>>]
        ELSE IF query.requestResourcePath # <<>>
          THEN [kind |-> "file", path |-> query.requestResourcePath]
          ELSE [kind |-> "none", path |-> <<>>]

\* transform without the catch clause: an error in the try block escapes
transform_noCatch(resource) ==
  IF resource.path[1] = "/static"
    THEN [threw |-> FALSE, uri |-> URI_file(appRoot \o Tail(resource.path))]
    ELSE IF resource.path = <<"/vscode-resource">> /\ resource.query # ""
      THEN LET t == tryBlock(resource.query)
           IN  IF t.kind = "file"
                 THEN [threw |-> FALSE, uri |-> URI_file(t.path)]
                 ELSE [threw |-> t.kind = "threw", uri |-> URI_from(resource)]
      ELSE [threw |-> FALSE, uri |-> URI_from(resource)]

\* transform(resource)
transform(resource) ==
  IF resource.path[1] = "/static"
    THEN [threw |-> FALSE, uri |-> URI_file(appRoot \o Tail(resource.path))]
    ELSE IF resource.path = <<"/vscode-resource">> /\ resource.query # ""
      THEN LET t == tryBlock(resource.query)
           IN  IF t.kind = "file"
                 THEN [threw |-> FALSE, uri |-> URI_file(t.path)]
                 ELSE [threw |-> FALSE, uri |-> URI_from(resource)]
      ELSE [threw |-> FALSE, uri |-> URI_from(resource)]

\* what the disk primitive was last called with; `called` is FALSE when the
\* command threw before reaching it
Primitive(method, arg, r, targetArg, target) ==
  [method |-> method, arg |-> arg, called |-> ~r.threw, threw |-> r.threw,
   resource |-> r.uri, targetArg |-> targetArg, target |-> target]

\* this.provider.<method>(this.transform(resource), ...)
withResource(method, resource) ==
  /\ primitive = NoCall
  /\ primitive' = Primitive(method, resource, transform(resource),
                            NoResource, NoResource)
  /\ UNCHANGED <<chanVars, scanVars>>

\* this.provider.<method>(this.transform(resource), URI.from(target), opts)
withTarget(method, resource, target) ==
  /\ primitive = NoCall
  /\ primitive' = Primitive(method, resource, transform(resource),
                            target, URI_from(target))
  /\ UNCHANGED <<chanVars, scanVars>>

\* this.provider.<method>(fd, ...)
withFd(method) ==
  /\ primitive = NoCall
  /\ primitive' = Primitive(method, NoResource,
                            [threw |-> FALSE, uri |-> NoResource],
                            NoResource, NoResource)
  /\ UNCHANGED <<chanVars, scanVars>>

stat(resource) == withResource("stat", resource)
open(resource) == withResource("open", resource)
close == withFd("close")
read == withFd("read")
write == withFd("write")
delete(resource) == withResource("delete", resource)
mkdir(resource) == withResource("mkdir", resource)
readdir(resource) == withResource("readdir", resource)
rename(resource, target) == withTarget("rename", resource, target)
copy(resource, target) == withTarget("copy", resource, target)

\* the promise the command returned settles
settle ==
  /\ primitive # NoCall
  /\ primitive' = NoCall
  /\ UNCHANGED <<chanVars, scanVars>>

\* the arguments a caller may pass; one command is in flight at a time
Args == IF primitive = NoCall THEN UriComponents ELSE {}

FileNext ==
  \/ \E resource \in Args : stat(resource)
  \/ \E resource \in Args : open(resource)
  \/ close
  \/ read
  \/ write
  \/ \E resource \in Args : delete(resource)
  \/ \E resource \in Args : mkdir(resource)
  \/ \E resource \in Args : readdir(resource)
  \/ \E resource \in Args, target \in Args :
       rename(resource, target)
  \/ \E resource \in Args, target \in Args :
       copy(resource, target)
  \/ settle

FileSpec == Init /\ [][FileNext]_vars

\* ------------------------------------- ExtensionEnvironmentChannel.scanExtensions
MaxExt == 2         \* descriptors one root's scan yields at most
MaxScanned == 4     \* descriptors all the roots' scans yield at most

\* extension identifiers the manifest scanner may report
ExtIds == {"pub.ext", "Pub.Ext", "pub.other"}

\* ExtensionIdentifier.toKey: the identifier in lower case
toKey(id) == IF id = "Pub.Ext" THEN "pub.ext" ELSE id

\* the descriptor the scan of root i yields at position k for identifier id
Descriptor(i, k, id) ==
  [identifier |-> id,
   extensionLocation |-> <<AllRoots[i], k>>,
   isBuiltin |-> i <= Len(BuiltinRoots)]

\* what ExtensionScanner.scanExtensions may resolve with for root i
ScanOutputs(i) ==
  UNION {{[k \in 1..n |-> Descriptor(i, k, f[k])] : f \in [1..n -> ExtIds]} :
         n \in 0..MaxExt}

\* scanExtensions(locale): scanBuiltin() and scanInstalled() start one scan
\* task per root
scanExtensions ==
  /\ scanPc = "idle"
  /\ scanPc' = "scanning"
  /\ UNCHANGED <<tasks, completed, uniqueExtensions, warnings, merged, returned>>
  /\ UNCHANGED <<chanVars, fileVars>>

\* the number of descriptors the settled scan tasks have yielded
RECURSIVE ScannedCount(_)
ScannedCount(i) ==
  IF i = 0 THEN 0 ELSE Len(tasks[i].value) + ScannedCount(i - 1)

\* the scan task of root i resolves with a list of descriptors
TaskFulfil(i, exts) ==
  /\ scanPc \in {"scanning", "rejected"}
  /\ tasks[i].state = "pending"
  /\ ScannedCount(NumRoots) + Len(exts) <= MaxScanned
  /\ tasks' = [tasks EXCEPT ![i] = [state |-> "fulfilled", value |-> exts]]
  /\ completed' = Append(completed, i)
  /\ UNCHANGED <<scanPc, uniqueExtensions, warnings, merged, returned>>
  /\ UNCHANGED <<chanVars, fileVars>>

\* the scan task of root i rejects: Promise.all rejects with it, and so does
\* the promise scanExtensions returned (nothing catches it)
TaskReject(i) ==
  /\ scanPc \in {"scanning", "rejected"}
  /\ tasks[i].state = "pending"
  /\ tasks' = [tasks EXCEPT ![i] = [state |-> "rejected", value |-> <<>>]]
  /\ completed' = Append(completed, i)
  /\ scanPc' = "rejected"
  /\ UNCHANGED <<uniqueExtensions, warnings, merged, returned>>
  /\ UNCHANGED <<chanVars, fileVars>>

\* allExtensions: [result of scanBuiltin(), result of scanInstalled()], each
\* the per-root results in root-list order
allExtensions_installedFirst ==
  << [j \in 1..Len(InstalledRoots) |-> tasks[Len(BuiltinRoots) + j].value],
     [i \in 1..Len(BuiltinRoots) |-> tasks[i].value] >>

allExtensions ==
  << [i \in 1..Len(BuiltinRoots) |-> tasks[i].value],
     [j \in 1..Len(InstalledRoots) |-> tasks[Len(BuiltinRoots) + j].value] >>

RECURSIVE Concat(_)
Concat(ss) == IF ss = <<>> THEN <<>> ELSE Head(ss) \o Concat(Tail(ss))

\* the descriptors in the order the three nested forEach loops visit them
mergeOrder_completionOrder ==
  Concat([n \in 1..Len(completed) |-> tasks[completed[n]].value])

mergeOrder == Concat([g \in 1..Len(allExtensions) |-> Concat(allExtensions[g])])

\* Map.has / Map.get / Map.set on a Map held as its entries in insertion order
MapHas(m, key) == \E k \in 1..Len(m) : m[k].key = key

MapGet(m, key) == m[CHOOSE k \in 1..Len(m) : m[k].key = key].value

MapSet_keepFirst(m, key, ext) ==
  IF MapHas(m, key) THEN m ELSE Append(m, [key |-> key, value |-> ext])

MapSet(m, key, ext) ==
  IF MapHas(m, key)
    THEN [k \in 1..Len(m) |->
            IF m[k].key = key THEN [key |-> key, value |-> ext] ELSE m[k]]
    ELSE Append(m, [key |-> key, value |-> ext])

\* the log after the has/get/warn of the forEach body for one descriptor:
\* `${oldPath} has been overridden ${newPath}` when its key is present
mergeWarn_afterSet(m, warns, extension) ==
  LET id == toKey(extension.identifier)
      m2 == MapSet(m, id, extension)
  IN Append(warns, <<MapGet(m2, id).extensionLocation,
                     extension.extensionLocation>>)

mergeWarn(m, warns, extension) ==
  LET id == toKey(extension.identifier)
  IN IF MapHas(m, id)
       THEN Append(warns, <<MapGet(m, id).extensionLocation,
                            extension.extensionLocation>>)
       ELSE warns

\* the body of the innermost forEach, over the descriptors left to visit
RECURSIVE mergeLoop(_, _, _)
mergeLoop(m, warns, exts) ==
  IF exts = <<>>
    THEN [map |-> m, warns |-> warns]
    ELSE LET extension == Head(exts)
             id == toKey(extension.identifier)
         IN mergeLoop(MapSet(m, id, extension),
                      mergeWarn(m, warns, extension),
                      Tail(exts))

\* the .then callback of Promise.all([scanBuiltin(), scanInstalled()])
mergeThen ==
  /\ scanPc = "scanning"
  /\ \A i \in 1..NumRoots : tasks[i].state = "fulfilled"
  /\ LET r == mergeLoop(<<>>, <<>>, mergeOrder)
     IN /\ uniqueExtensions' = r.map
        /\ warnings' = r.warns
        /\ returned' = [k \in 1..Len(r.map) |-> r.map[k].value]
  /\ merged' = mergeOrder
  /\ scanPc' = "resolved"
  /\ UNCHANGED <<tasks, completed>>
  /\ UNCHANGED <<chanVars, fileVars>>

ScanNext ==
  \/ scanExtensions
  \/ \E i \in 1..NumRoots : \E exts \in ScanOutputs(i) : TaskFulfil(i, exts)
  \/ \E i \in 1..NumRoots : TaskReject(i)
  \/ mergeThen

ScanSpec == Init /\ [][ScanNext]_vars

\* ------------------------------------------------------------- claims
\* the state of the registry and of every subscription
registryState == <<watchers, watches, released, wDisposed, nWatchers, nHandles>>

\* C1: absent channel disposal, a Watcher is registered for session s if and
\* only if some listener is attached to some emitter opened for s.
C1_WatcherIffListener ==
  ~channelDisposed =>
    \A s \in Sessions : (watchers[s] # None) <=> HasListener(s)

\* C2: session isolation. A detach, watch or unwatch on one session leaves
\* every other session's registry entry, its request-id map and the release
\* count of each of its handles unchanged.
C2_SessionIsolation ==
  [][ last'.op \in {"detach", "watch", "unwatch"} =>
        \A t \in Sessions \ {last'.session} :
          /\ watchers'[t] = watchers[t]
          /\ watchers[t] # None =>
               /\ watches'[watchers[t]] = watches[watchers[t]]
               /\ \A h \in HeldBy({watchers[t]}) : released'[h] = released[h]
    ]_vars

C2_Witness ==
  /\ last.op = "detach" /\ last.session = "A" /\ last.watcher # None
  /\ last.held # {}
  /\ HasListener("B")
  /\ watchers["B"] # None
  /\ \E h \in HeldBy({watchers["B"]}) : released[h] = 0

\* C3: event routing. A change batch or error event raised by a Watcher
\* registered under session s reaches only listeners of emitters opened for
\* s; and the Watcher registered under s is one created under s.
C3_EventRouting ==
  /\ last.op \in {"change", "error"} =>
       \A e \in last.targets : emitterSession[e] = last.session
  /\ \A s \in Sessions : watchers[s] # None => wSession[watchers[s]] = s

C3_Witness ==
  /\ last.op = "change" /\ last.targets # {}
  /\ \E e \in 1..nEmitters :
       emitterSession[e] # last.session /\ listeners[e] > 0

\* C4: after a successful unwatch(s, r) the session's map has no entry for r
\* and the handle has been released exactly once; no handle is ever released
\* a second time by any later operation.
C4_ReleasedOnce ==
  /\ \A h \in Handles : released[h] <= 1
  /\ (last.op = "unwatch" /\ last.ok) =>
       /\ watches[last.watcher][last.req] = None
       /\ released[last.handle] = 1

\* the only Watcher ever made was disposed by a last-listener detach while
\* holding nothing, after an unwatch had released a handle of its map
C4_Witness ==
  /\ last.op = "detach" /\ last.watcher # None /\ last.held = {}
  /\ nWatchers = 1
  /\ \E h \in Handles : released[h] = 1

\* C5: every request id present in any Watcher's map refers to a handle that
\* has not been released.
C5_KeysAreLive ==
  \A w \in WatcherIds : \A r \in Reqs :
    watches[w][r] # None => released[watches[w][r]] = 0

C5_Witness ==
  /\ last.op = "unwatch" /\ last.ok
  /\ \E r \in Reqs : watches[last.watcher][r] # None

\* C6: after FileProviderChannel.dispose() the registry is empty and every
\* handle the registered Watchers held has been released.
C6_DisposeReleasesAll ==
  last.op = "dispose" =>
    /\ \A s \in Sessions : watchers[s] = None
    /\ \A h \in last.held : released[h] = 1

C6_Witness ==
  last.op = "dispose" /\ Cardinality(last.held) >= 2

\* C7: unwatch(s, r) with no Watcher registered for s, or with r not a key of
\* its map, fails and changes neither the registry nor any map nor any handle.
C7_UnwatchMissingFails ==
  [][ (/\ last'.op = "unwatch"
       /\ \/ watchers[last'.session] = None
          \/ watches[watchers[last'.session]][last'.req] = None)
      => (~last'.ok /\ UNCHANGED registryState)
    ]_vars

C7_Witness ==
  /\ last.op = "unwatch" /\ ~last.ok /\ last.watcher # None
  /\ \E r \in Reqs : watches[last.watcher][r] # None

\* C8: watch(s, r, ...) while s has no attached listener (no Watcher is
\* registered for s) fails, creates no Watcher and opens no subscription; a
\* watch succeeds, and a Watcher is registered, only while s has a listener.
C8_WatchNeedsListener ==
  [][ /\ (last'.op = "watch"
           /\ (~HasListener(last'.session) \/ watchers[last'.session] = None))
         => (~last'.ok /\ UNCHANGED registryState)
      /\ (last'.op = "watch" /\ last'.ok) => HasListener(last'.session)
      /\ \A s \in Sessions : watchers'[s] # None => HasListener(s)'
    ]_vars

C8_Witness ==
  /\ last.op = "watch" /\ ~last.ok /\ ~HasListener(last.session)
  /\ nEmitters > 0

\* the positions <<root, index>> of the descriptors the tasks resolved with
Scanned == {<<i, k>> \in (1..NumRoots) \X (1..MaxExt) :
              tasks[i].state = "fulfilled" /\ k <= Len(tasks[i].value)}

\* position p is merged no later than position q: builtin roots in list
\* order, then installed roots in list order, list order within a root
NotAfter(p, q) == p[1] < q[1] \/ (p[1] = q[1] /\ p[2] <= q[2])

\* C9: when scanExtensions resolves, it returns exactly one descriptor per
\* normalized identity any root's scan yielded, and that descriptor is the
\* last one of its identity in the merge order (so installed beats builtin).
C9_MergePrecedence ==
  scanPc = "resolved" =>
    /\ \A p \in Scanned :
         Cardinality({k \in 1..Len(returned) :
            toKey(returned[k].identifier)
              = toKey(tasks[p[1]].value[p[2]].identifier)}) = 1
    /\ \A k \in 1..Len(returned) :
         \E p \in Scanned :
           /\ tasks[p[1]].value[p[2]] = returned[k]
           /\ \A q \in Scanned :
                toKey(tasks[q[1]].value[q[2]].identifier)
                  = toKey(returned[k].identifier) => NotAfter(q, p)

C9_Witness ==
  /\ scanPc = "resolved"
  /\ \E p \in Scanned, q \in Scanned :
       /\ p[1] <= Len(BuiltinRoots) /\ q[1] > Len(BuiltinRoots)
       /\ tasks[p[1]].value[p[2]].identifier = "pub.ext"
       /\ tasks[q[1]].value[q[2]].identifier = "Pub.Ext"
       /\ \E k \in 1..Len(returned) : returned[k] = tasks[q[1]].value[q[2]]
  /\ Len(returned) = 2

\* C10: when one root's scan task fails and the others succeed, scanExtensions
\* does not reject, and what it resolves with is the merge of the successful
\* roots' results.
C10_FaultIsolation ==
  (/\ \A i \in 1..NumRoots : tasks[i].state # "pending"
   /\ Cardinality({i \in 1..NumRoots : tasks[i].state = "rejected"}) = 1)
  => /\ scanPc # "rejected"
     /\ scanPc = "resolved" =>
          returned = LET r == mergeLoop(<<>>, <<>>, mergeOrder)
                     IN [k \in 1..Len(r.map) |-> r.map[k].value]

\* the descriptor at a scanned position, and its normalized identity
DescAt(p) == tasks[p[1]].value[p[2]]
KeyAt(p) == toKey(DescAt(p).identifier)

\* position p comes strictly before position q in the fixed merge order
Before(p, q) == p[1] < q[1] \/ (p[1] = q[1] /\ p[2] < q[2])

\* the positions holding the first descriptor of their identity, and the rest
Firsts == {p \in Scanned :
             ~\E q \in Scanned : Before(q, p) /\ KeyAt(q) = KeyAt(p)}
Repeats == Scanned \ Firsts

\* the 1-based rank of p among the positions of S, in the fixed merge order
Rank(p, S) == Cardinality({q \in S : Before(q, p)}) + 1

\* the last position of p's identity, and the one of p's identity just before p
LastOf(p) == CHOOSE q \in Scanned :
  /\ KeyAt(q) = KeyAt(p)
  /\ \A x \in Scanned : KeyAt(x) = KeyAt(p) => NotAfter(x, q)
PrevOf(p) == CHOOSE q \in Scanned :
  /\ KeyAt(q) = KeyAt(p) /\ Before(q, p)
  /\ \A x \in Scanned : (KeyAt(x) = KeyAt(p) /\ Before(x, p)) => NotAfter(x, q)

\* every warning, in order, names the location of the descriptor its identity
\* last had and the location of the descriptor that replaces it
WarningsNamePrevAndNew ==
  \A p \in Repeats :
    /\ Rank(p, Repeats) <= Len(warnings)
    /\ warnings[Rank(p, Repeats)]
         = <<DescAt(PrevOf(p)).extensionLocation, DescAt(p).extensionLocation>>

\* C11: ordered barrier. Nothing is merged before every builtin scan task has
\* resolved, every scanned descriptor is merged, and in the merge every
\* builtin descriptor comes before every installed descriptor.
C11_OrderedBarrier ==
  /\ (merged # <<>> \/ uniqueExtensions # <<>>) =>
       \A i \in 1..Len(BuiltinRoots) : tasks[i].state = "fulfilled"
  /\ \A a \in 1..Len(merged) : \A b \in 1..Len(merged) :
       (a < b /\ merged[b].isBuiltin) => merged[a].isBuiltin
  /\ scanPc = "resolved" =>
       \A p \in Scanned : \E a \in 1..Len(merged) : merged[a] = DescAt(p)

C11_Witness ==
  /\ scanPc = "resolved"
  /\ completed[1] > Len(BuiltinRoots)
  /\ \E a \in 1..Len(merged) : merged[a].isBuiltin
  /\ \E b \in 1..Len(merged) : ~merged[b].isBuiltin

\* C12: merge determinism. The array scanExtensions resolves with and the
\* sequence of warnings are fixed by the per-root results alone, whatever the
\* order the scan tasks settled in: one entry per identity in the order the
\* identities first occur in the root lists, each the last of its identity.
C12_MergeDeterminism ==
  scanPc = "resolved" =>
    /\ Len(returned) = Cardinality(Firsts)
    /\ \A p \in Firsts : returned[Rank(p, Firsts)] = DescAt(LastOf(p))
    /\ Len(warnings) = Cardinality(Repeats)
    /\ WarningsNamePrevAndNew

C12_Witness ==
  /\ scanPc = "resolved"
  /\ completed = <<3, 2, 1>>
  /\ Len(warnings) >= 1
  /\ Len(returned) >= 2

\* C18: a warning is logged exactly when the descriptor's identity is already
\* in the accumulator, naming the stored descriptor's location and the new
\* one's; the warnings number the descriptors scanned less the identities.
C18_WarningPerOverride ==
  scanPc = "resolved" =>
    /\ Len(warnings) =
         Cardinality(Scanned) - Cardinality({KeyAt(p) : p \in Scanned})
    /\ Len(warnings) = Cardinality(Repeats)
    /\ WarningsNamePrevAndNew
    /\ Len(merged) = Cardinality(Scanned)

C18_Witness ==
  /\ scanPc = "resolved"
  /\ Len(warnings) = 2
  /\ warnings[1][2] = warnings[2][1]
  /\ Len(returned) = 2

\* C13: Watcher.dispose() is idempotent. A second dispose() right after a
\* first on the same Watcher releases no handle and leaves the state the
\* first one left: an empty map.
C13_DisposeIdempotent ==
  [][ (/\ last.op = "Watcher.dispose"
       /\ last'.op = "Watcher.dispose"
       /\ last'.watcher = last.watcher)
      => /\ released' = released
         /\ watches' = watches
         /\ wDisposed' = wDisposed
         /\ watches'[last'.watcher] = [r \in Reqs |-> None]
    ]_vars

\* the one Watcher made was disposed holding nothing, every handle it had
\* opened having been released by the dispose() before
C13_Witness ==
  /\ last.op = "Watcher.dispose" /\ last.held = {}
  /\ nWatchers = 1
  /\ nHandles >= 2
  /\ \A h \in 1..nHandles : released[h] = 1

ResourceMethods ==
  {"stat", "open", "delete", "mkdir", "readdir", "rename", "copy"}
TargetMethods == {"rename", "copy"}

\* C14: every resource argument of every file command reaches the disk
\* primitive remapped; for rename and copy that holds of the target as well
\* as of the source, so a target under the static-asset prefix arrives
\* rewritten to the application root.
C14_AllArgsRemapped ==
  /\ primitive.method \in ResourceMethods =>
       (primitive.called /\ primitive.resource = transform(primitive.arg).uri)
  /\ primitive.method \in TargetMethods =>
       /\ primitive.target = transform(primitive.targetArg).uri
       /\ primitive.targetArg.path[1] = "/static" =>
            /\ primitive.target.scheme = "file"
            /\ primitive.target.path = appRoot \o Tail(primitive.targetArg.path)

Malformed == {"{"}
NoField == {"null", "{}"}
Carrying == {"{\"requestResourcePath\":\"\"}", "{\"requestResourcePath\":\"/foo\"}"}

\* C15: remapping never throws. For a resource whose path is the
\* webview-resource marker, a malformed query, a query without
\* requestResourcePath and an empty query give the resource back
\* unchanged; only a parseable query carrying requestResourcePath gives
\* that path as a local file.
C15_RemapNeverThrows ==
  primitive.method \in ResourceMethods =>
    /\ ~primitive.threw /\ primitive.called
    /\ primitive.arg.path = <<"/vscode-resource">> =>
         /\ primitive.arg.query \in Malformed \cup NoField \cup {""} =>
              primitive.resource = primitive.arg
         /\ primitive.resource # primitive.arg =>
              /\ primitive.arg.query \in Carrying
              /\ primitive.resource =
                   [scheme |-> "file", path |-> <<"/foo">>, query |-> ""]
         /\ primitive.arg.query = "{\"requestResourcePath\":\"/foo\"}" =>
              primitive.resource # primitive.arg

\* stat of the marker path with an unparseable query reached the primitive
\* with the resource as given
C15_Witness ==
  /\ primitive.method = "stat"
  /\ primitive.arg.path = <<"/vscode-resource">>
  /\ primitive.arg.query = "{"
  /\ primitive.called
  /\ primitive.resource = primitive.arg

\* C16: an unknown command given to call, or an unknown event given to
\* listen, fails that call and nothing else: the registry, every Watcher's
\* map, the handles, the emitters and their listeners are as they were.
C16_InvalidFailsAlone ==
  [][ last'.op \in {"Invalid call", "Invalid listen"}
      => /\ ~last'.ok
         /\ UNCHANGED <<watchers, watches, wDisposed, wSession, wEmitter,
                        nWatchers, released, nHandles, emitterSession,
                        listeners, nEmitters, channelDisposed>>
    ]_vars

\* an unknown command failed while session A had a listener, a registered
\* Watcher and an open subscription, all of which are still there
C16_Witness ==
  /\ last.op = "Invalid call" /\ ~last.ok
  /\ HasListener("A")
  /\ watchers["A"] # None
  /\ HeldBy({watchers["A"]}) # {}
  /\ \A h \in HeldBy({watchers["A"]}) : released[h] = 0

\* C17: a watch(S, r) whose request id r is already in S's map is a logic
\* error and does not replace the stored handle: the call fails and the
\* entry for r still refers to the handle it had.
C17_DuplicateIdKeepsHandle ==
  [][ (/\ last'.op = "watch"
       /\ last'.watcher # None
       /\ watches[last'.watcher][last'.req] # None)
      => /\ ~last'.ok
         /\ watches'[last'.watcher][last'.req] =
              watches[last'.watcher][last'.req]
    ]_vars

\* C19: whenever the last listener of a stream for session S is removed, a
\* Watcher is registered for S, so onLastListenerRemove finds the entry it
\* disposes: no detach fails.
C19_DetachFindsWatcher ==
  last.op = "detach" => last.ok

\* C20: no leak. Every handle opened and not yet released is stored in the
\* map of a Watcher that is registered in the channel's registry.
C20_NoLeak ==
  \A h \in 1..nHandles : released[h] = 0 => h \in HeldBy(Registered)

====
